---- MODULE Spec2Model ----
(***************************************************************************)
(* Model of the mesh segmentation core of mmd_uuunyaa_tools                *)
(* (editors/segmentation.py): the adjacency graph builder                  *)
(* _calc_segment_contacts and the greedy merge loop of auto_segment.       *)
(*                                                                         *)
(* Numbers.  Areas, lengths, vertex weights and thresholds are integers    *)
(* (the unit is arbitrary); costs are exact rationals <<n, d>> with d > 0  *)
(* in lowest terms, so that the divisions of the cost model are computed,  *)
(* not assumed.  Meshes are triangle meshes: face f owns the loops         *)
(* 3f, 3f+1, 3f+2 and calc_loop_triangles yields them in face order.       *)
(***************************************************************************)
EXTENDS Integers, Sequences, FiniteSets, TLC

VARIABLES
    mesh,                          \* target_bmesh: the input mesh (never written)
    params,                        \* the keyword arguments of auto_segment
    pc,                            \* position in auto_segment
    error,                         \* the exception that left auto_segment, or "none"
    segments,                      \* Segment objects by Segment.index
    sci2segment_contacts,          \* live SegmentContact objects by index
    cost_sorted_segment_contacts,  \* list of contact ids, ascending cost_normalized
    merging,                       \* the flag of the outer while loop
    scan_index,                    \* position of the list iterator of the for loop
    result_segments,               \* set of Segment.index
    last_merged_cost,              \* cost of the last accepted merge
    segment_pair_shift,            \* int(math.log2(segment_count) / 2 + 1)
    merge_log,                     \* history: one record per accepted merge
    twin                           \* a second run on the same input (SpecTwin only)

vars == <<mesh, params, pc, error, segments, sci2segment_contacts,
          cost_sorted_segment_contacts, merging, scan_index, result_segments,
          last_merged_cost, segment_pair_shift, merge_log, twin>>

(***************************************************************************)
(* Exact rationals                                                         *)
(***************************************************************************)
Abs(x) == IF x < 0 THEN -x ELSE x

RECURSIVE GCD(_, _)
GCD(a, b) == IF b = 0 THEN a ELSE GCD(b, a % b)

\* n/d in lowest terms with a positive denominator (d # 0)
Rat(n, d) ==
    LET g == GCD(Abs(n), Abs(d))
        s == IF d < 0 THEN -1 ELSE 1
    IN  <<s * (n \div g), s * (d \div g)>>

RInt(n) == <<n, 1>>

RAdd(a, b) == Rat(a[1] * b[2] + b[1] * a[2], a[2] * b[2])

RMul(a, b) == Rat(a[1] * b[1], a[2] * b[2])

RLt(a, b) == a[1] * b[2] < b[1] * a[2]

RLeq(a, b) == a[1] * b[2] <= b[1] * a[2]

RECURSIVE SumSeq(_)
SumSeq(s) == IF s = <<>> THEN 0 ELSE Head(s) + SumSeq(Tail(s))

RECURSIVE RSumSeq(_)
RSumSeq(s) == IF s = <<>> THEN RInt(0) ELSE RAdd(Head(s), RSumSeq(Tail(s)))

\* a tuple literal read as a 0-based array
Z(s) == [i \in 0..(Len(s) - 1) |-> s[i + 1]]

\* floor(log2(n)) for n >= 1
RECURSIVE Log2Floor(_)
Log2Floor(n) == IF n <= 1 THEN 0 ELSE 1 + Log2Floor(n \div 2)

\* int(math.log2(n) / 2 + 1) for n >= 1 (math.log2(0) raises ValueError)
PairShift(n) == (Log2Floor(n) \div 2) + 1

RECURSIVE Pow2(_)
Pow2(k) == IF k = 0 THEN 1 ELSE 2 * Pow2(k - 1)

(***************************************************************************)
(* Canonical pair keys                                                     *)
(***************************************************************************)
to_loop_pair_id(loop0_index, loop1_index, loop_pair_shift) ==
    IF loop0_index > loop1_index
    THEN loop1_index + loop0_index * Pow2(loop_pair_shift)
    ELSE loop0_index + loop1_index * Pow2(loop_pair_shift)

to_vertex_pair_id(vert0_index, vert1_index, vertex_pair_shift) ==
    IF vert0_index > vert1_index
    THEN vert1_index + vert0_index * Pow2(vertex_pair_shift)
    ELSE vert0_index + vert1_index * Pow2(vertex_pair_shift)

\* a faulty variant of to_segment_pair_id: the larger index is left out of the key
to_segment_pair_id_low(segment0_index, segment1_index, pair_shift) ==
    IF segment0_index > segment1_index
    THEN segment1_index
    ELSE segment0_index

to_segment_pair_id(segment0_index, segment1_index, pair_shift) ==
    IF segment0_index > segment1_index
    THEN segment1_index + segment0_index * Pow2(pair_shift)
    ELSE segment0_index + segment1_index * Pow2(pair_shift)

(***************************************************************************)
(* Mesh navigation (triangle faces)                                        *)
(***************************************************************************)
LoopFace(l) == l \div 3

link_loop_next(l) == 3 * (l \div 3) + ((l + 1) % 3)

link_loop_prev(l) == 3 * (l \div 3) + ((l + 2) % 3)

\* min of the loop's index and those of its next and prev loops
to_tri_loop_index(l) ==
    LET li0 == l
        li1 == link_loop_next(l)
        li2 == link_loop_prev(l)
    IN  IF li0 > li1
        THEN (IF li1 > li2 THEN li2 ELSE li1)
        ELSE (IF li0 > li2 THEN li2 ELSE li0)

(***************************************************************************)
(* Vertex group weights                                                    *)
(***************************************************************************)
\* v[deform_layer].items() without the ignored groups, as a list of <<vgi, weight>>
calc_vi2vgi2weights(m, ignore_vertex_group_indices) ==
    [v \in DOMAIN m.weights |->
        SelectSeq(m.weights[v], LAMBDA it : it[1] \notin ignore_vertex_group_indices)]

\* dict.get(vgi, 0.0) on a list of items with distinct keys
RECURSIVE DictGet(_, _)
DictGet(items, vgi) ==
    IF items = <<>> THEN 0
    ELSE IF Head(items)[1] = vgi THEN Head(items)[2]
    ELSE DictGet(Tail(items), vgi)

RECURSIVE SumAbsDiff(_, _)
SumAbsDiff(items, other) ==
    IF items = <<>> THEN 0
    ELSE Abs(Head(items)[2] - DictGet(other, Head(items)[1]))
         + SumAbsDiff(Tail(items), other)

\* the weight computed on a memo miss: both loops of lines 459-464
VertexGroupWeightDirect(vi2vgi2weights, v0, v1) ==
    SumAbsDiff(vi2vgi2weights[v0], vi2vgi2weights[v1])
    + SumAbsDiff(vi2vgi2weights[v1], vi2vgi2weights[v0])

Extend(f, k, v) == [x \in (DOMAIN f) \cup {k} |-> IF x = k THEN v ELSE f[x]]

\* _calc_vertex_group_weight_cost on the builder state b: the memo table is
\* b.vpi2weights, and the value returned is added to b.weight_sum
calc_vertex_group_weight_cost(b, vi2vgi2weights, v0, v1) ==
    LET vpi == to_vertex_pair_id(v0, v1, b.vertex_pair_shift)
        hit == vpi \in DOMAIN b.vpi2weights
        weight == IF hit THEN b.vpi2weights[vpi]
                  ELSE VertexGroupWeightDirect(vi2vgi2weights, v0, v1)
    IN  [b EXCEPT !.vpi2weights = IF hit THEN @ ELSE Extend(@, vpi, weight),
                  !.weight_sum = @ + weight]

\* the scan of lines 477-486: acc = <<max_vgi, max_weight, vgi2weights>>
RECURSIVE HeaviestScan(_, _)
HeaviestScan(items, acc) ==
    IF items = <<>> THEN acc[1]
    ELSE LET vgi    == Head(items)[1]
             weight == Head(items)[2] + DictGet(acc[3], vgi)
             rest   == SelectSeq(acc[3], LAMBDA it : it[1] # vgi)
         IN  HeaviestScan(Tail(items),
                 IF weight > acc[2]
                 THEN <<vgi, weight, Append(rest, <<vgi, weight>>)>>
                 ELSE <<acc[1], acc[2], Append(rest, <<vgi, weight>>)>>)

\* _calc_heaviest_vertex_group_index on the builder state b: the memo table is
\* b.tli2heaviest_vgi, and the value returned is left in b.heaviest_vgi
calc_heaviest_vertex_group_index(b, vi2vgi2weights, m, tli, loop) ==
    LET hit == tli \in DOMAIN b.tli2heaviest_vgi
        max_vgi == IF hit THEN b.tli2heaviest_vgi[tli]
                   ELSE HeaviestScan(vi2vgi2weights[m.loop_vert[loop]]
                                     \o vi2vgi2weights[m.loop_vert[link_loop_next(loop)]]
                                     \o vi2vgi2weights[m.loop_vert[link_loop_prev(loop)]],
                                     <<-1, -1, <<>>>>)
    IN  [b EXCEPT !.tli2heaviest_vgi = IF hit THEN @ ELSE Extend(@, tli, max_vgi),
                  !.heaviest_vgi = max_vgi]

(***************************************************************************)
(* Perimeter cost                                                          *)
(*                                                                         *)
(* math.sqrt is irrational: sqrt(a) is taken as floor(16*sqrt(a))/16, the  *)
(* same fixed resolution on every call.  sqrt(pi) cancels between          *)
(* merged_ratio and mean_ratio.  A float division by zero raises           *)
(* ZeroDivisionError: the result is then [err |-> TRUE].                   *)
(***************************************************************************)
RECURSIVE ISqrtFrom(_, _)
ISqrtFrom(n, r) == IF (r + 1) * (r + 1) > n THEN r ELSE ISqrtFrom(n, r + 1)

\* floor(16 * sqrt(area))
SqrtQ(area) == ISqrtFrom(256 * area, 0)

\* SegmentContact.calc_perimeter_cost on a contact record sc
calc_perimeter_cost(sc, segs) ==
    LET segment0_perimeter == segs[sc.segment0].perimeter
        segment0_area      == segs[sc.segment0].area
        segment1_perimeter == segs[sc.segment1].perimeter
        segment1_area      == segs[sc.segment1].area
        q0  == SqrtQ(segment0_area)
        q1  == SqrtQ(segment1_area)
        q01 == SqrtQ(segment0_area + segment1_area)
    IN  IF \/ q0 = 0 \/ q1 = 0                                   \* x / _area_to_circumference(0)
           \/ segment0_perimeter = 0 \/ segment1_perimeter = 0   \* area / (0 / circumference)
        THEN [err |-> TRUE, val |-> RInt(0)]
        ELSE LET ratio == Rat((segment0_perimeter + segment1_perimeter - 2 * sc.length)
                                * (segment0_area * q0 * segment1_perimeter
                                   + segment1_area * q1 * segment0_perimeter),
                              segment0_perimeter * segment1_perimeter * q01
                                * (segment0_area + segment1_area))
                 excess == RAdd(ratio, RInt(-1))
             IN  [err |-> FALSE,
                  val |-> IF RLt(excess, RInt(0)) THEN RInt(0) ELSE excess]

\* a faulty variant of LengthNormalized: the cost is divided by the length whatever
\* contact_length_factor is
LengthNormalizedAlways(cost, length, contact_length_factor) ==
    RMul(cost, Rat(1, length))

\* cost / (length * contact_length_factor if contact_length_factor > 0 else 1);
\* the caller guards the zero divisor
LengthNormalized(cost, length, contact_length_factor) ==
    IF contact_length_factor > 0
    THEN RMul(cost, Rat(1, length * contact_length_factor))
    ELSE cost

LengthDivisorIsZero(length, contact_length_factor) ==
    contact_length_factor > 0 /\ length * contact_length_factor = 0

(***************************************************************************)
(* _calc_segment_contacts                                                  *)
(*                                                                         *)
(* The builder state b carries the closure variables of the function       *)
(* (segments by id, tli2segment, sci2segment_contacts, the processed pair  *)
(* ids, the two memo tables), the locals of the current triangle and loop  *)
(* (this_segment, this_heaviest_vertex_group_index, edge_length, ...) and  *)
(* the values the helper calls return (segment_ret, heaviest_vgi,          *)
(* weight_sum).  Each operator is one stretch of the function, from        *)
(* builder state to builder state.                                         *)
(***************************************************************************)
NewSegment == [area |-> 0, perimeter |-> 0, non_contact_perimeter |-> 0,
               tri_loop0s |-> {}, segment_contact_ids |-> {}]

\* tli2segment[tli] of a defaultdict(_new_segment); the segment's id is left in
\* b.segment_ret
SegmentOf(b, tli) ==
    IF tli \in DOMAIN b.tli2segment
    THEN [b EXCEPT !.segment_ret = b.tli2segment[tli]]
    ELSE [b EXCEPT !.next_segment_id = b.next_segment_id + 1,
                   !.tli2segment = Extend(@, tli, b.next_segment_id + 1),
                   !.segments = Extend(@, b.next_segment_id + 1, NewSegment),
                   !.segment_ret = b.next_segment_id + 1]

StoreThisLoop(b, edge_length) ==
    [b EXCEPT !.edge_length = edge_length,
              !.this_loop_vertex_group_weight_cost = b.weight_sum]

\* lines 546-564, once per this_loop: the edge length, and the weight costs towards
\* the far vertex of this triangle (edge.verts taken in the direction of this_loop)
ThisLoopCosts(b, m, vi2, this_loop) ==
    IF b.edge_length >= 0 THEN b
    ELSE StoreThisLoop(
             calc_vertex_group_weight_cost(
                 calc_vertex_group_weight_cost(
                     [b EXCEPT !.weight_sum = 0], vi2,
                     m.loop_vert[this_loop], m.loop_vert[link_loop_prev(this_loop)]),
                 vi2, m.loop_vert[link_loop_next(this_loop)],
                 m.loop_vert[link_loop_prev(this_loop)]),
             m.elen[this_loop])

\* lines 566-579: the heaviest group and the segment of the other triangle, and the
\* weight costs towards its far vertex (left in b.weight_sum)
ThatSide(b, m, vi2, this_loop, that_loop) ==
    calc_vertex_group_weight_cost(
        calc_vertex_group_weight_cost(
            [SegmentOf(calc_heaviest_vertex_group_index(
                           b, vi2, m, to_tri_loop_index(that_loop), that_loop),
                       to_tri_loop_index(that_loop))
             EXCEPT !.weight_sum = 0],
            vi2, m.loop_vert[this_loop], m.loop_vert[link_loop_prev(that_loop)]),
        vi2, m.loop_vert[link_loop_next(this_loop)], m.loop_vert[link_loop_prev(that_loop)])

\* lines 571-615: the six cost terms, cost_total and the new SegmentContact
EmitContact(b, m, p, this_loop, that_loop) ==
    LET edge_length  == b.edge_length
        that_segment == b.segment_ret
        cost_vertex_group_weight ==
            Rat(edge_length * (b.this_loop_vertex_group_weight_cost + b.weight_sum), 4)
        cost_vertex_group_change ==
            edge_length * (IF b.this_heaviest_vertex_group_index = b.heaviest_vgi THEN 0 ELSE 1)
        cost_face_angle ==
            edge_length * Abs(m.normal[LoopFace(this_loop)] - m.normal[LoopFace(that_loop)])
        cost_material_change ==
            edge_length * (IF m.material[LoopFace(this_loop)] = m.material[LoopFace(that_loop)]
                           THEN 0 ELSE 1)
        cost_edge_sharp == edge_length * (IF m.smooth[this_loop] THEN 0 ELSE 1)
        cost_edge_seam  == edge_length * (IF m.seam[this_loop] THEN 1 ELSE 0)
        cost_total ==
            RAdd(RMul(RInt(p.vertex_group_weight_cost_factor), cost_vertex_group_weight),
                 RInt(p.vertex_group_change_cost_factor * cost_vertex_group_change
                      + p.face_angle_cost_factor * cost_face_angle
                      + p.material_change_cost_factor * cost_material_change
                      + p.edge_sharp_cost_factor * cost_edge_sharp
                      + p.edge_seam_cost_factor * cost_edge_seam))
        sci == b.next_segment_contact_id + 1
    IN  IF LengthDivisorIsZero(edge_length, p.contact_length_factor)
        THEN [b EXCEPT !.error = "ZeroDivisionError"]
        ELSE [b EXCEPT
                !.next_segment_contact_id = sci,
                !.this_segment_contact_perimeter = @ + edge_length,
                !.sci2segment_contacts = Extend(@, sci,
                    [cost |-> cost_total,
                     cost_normalized |->
                         LengthNormalized(cost_total, edge_length, p.contact_length_factor),
                     length |-> edge_length,
                     segment0 |-> b.this_segment,
                     segment1 |-> that_segment]),
                !.segments = [@ EXCEPT
                    ![b.this_segment].segment_contact_ids = @ \cup {sci},
                    ![that_segment].segment_contact_ids = @ \cup {sci}]]

\* lines 546-615: the contact of this_loop with that_loop
BuildContact(b, m, p, vi2, this_loop, that_loop) ==
    EmitContact(ThatSide(ThisLoopCosts(b, m, vi2, this_loop), m, vi2, this_loop, that_loop),
                m, p, this_loop, that_loop)

\* lines 536-615: the walk over link_loop_radial_next until it is back at this_loop
RECURSIVE RadialWalk(_, _, _, _, _, _)
RadialWalk(b, m, p, vi2, this_loop, that_loop) ==
    IF that_loop = this_loop \/ b.error # "none" THEN b
    ELSE IF to_loop_pair_id(this_loop, that_loop, b.loop_pair_shift) \in b.processed_loop_pair_ids
    THEN RadialWalk(b, m, p, vi2, this_loop, m.radial[that_loop])
    ELSE RadialWalk(
            IF ~m.select[LoopFace(that_loop)]
            THEN [b EXCEPT !.processed_loop_pair_ids =
                     @ \cup {to_loop_pair_id(this_loop, that_loop, b.loop_pair_shift)}]
            ELSE BuildContact(
                     [b EXCEPT !.processed_loop_pair_ids =
                         @ \cup {to_loop_pair_id(this_loop, that_loop, b.loop_pair_shift)}],
                     m, p, vi2, this_loop, that_loop),
            m, p, vi2, this_loop, m.radial[that_loop])

\* lines 533-615: the three loops of the triangle, k = 0, 1, 2
RECURSIVE BuildLoops(_, _, _, _, _, _)
BuildLoops(b, m, p, vi2, f, k) ==
    IF k = 3 \/ b.error # "none" THEN b
    ELSE BuildLoops(RadialWalk([b EXCEPT !.edge_length = -1], m, p, vi2,
                               3 * f + k, m.radial[3 * f + k]),
                    m, p, vi2, f, k + 1)

\* lines 520-531: the triangle's segment, its area, perimeter and member
StartTriangle(b, m, f) ==
    [b EXCEPT !.this_segment = b.segment_ret,
              !.this_heaviest_vertex_group_index = b.heaviest_vgi,
              !.this_segment_contact_perimeter = 0,
              !.segments[b.segment_ret].area = m.area[f],
              !.segments[b.segment_ret].perimeter =
                  m.elen[3 * f] + m.elen[3 * f + 1] + m.elen[3 * f + 2],
              !.segments[b.segment_ret].tri_loop0s = @ \cup {3 * f}]

\* line 617
FinishTriangle(b) ==
    IF b.error # "none" THEN b
    ELSE [b EXCEPT !.segments[b.this_segment].non_contact_perimeter =
                       b.segments[b.this_segment].perimeter - b.this_segment_contact_perimeter]

\* lines 513-617: one triangle of tri_loops
BuildTriangle(b, m, p, vi2, f) ==
    IF ~m.select[f] THEN b
    ELSE FinishTriangle(
             BuildLoops(
                 StartTriangle(
                     SegmentOf(calc_heaviest_vertex_group_index(
                                   b, vi2, m, to_tri_loop_index(3 * f), 3 * f),
                               to_tri_loop_index(3 * f)),
                     m, f),
                 m, p, vi2, f, 0))

RECURSIVE BuildTriangles(_, _, _, _, _)
BuildTriangles(b, m, p, vi2, f) ==
    IF f = m.ntris \/ b.error # "none" THEN b
    ELSE BuildTriangles(BuildTriangle(b, m, p, vi2, f), m, p, vi2, f + 1)

\* line 621, for one contact
AddPerimeterCost(b, p, sci, pcost) ==
    IF pcost.err
    THEN [b EXCEPT !.error = "ZeroDivisionError"]
    ELSE [b EXCEPT !.sci2segment_contacts[sci].cost_normalized =
                       RAdd(@, RMul(RInt(p.perimeter_cost_factor), pcost.val))]

\* lines 619-621: cost_normalized += perimeter_cost_factor * calc_perimeter_cost()
RECURSIVE AddPerimeterCosts(_, _, _)
AddPerimeterCosts(b, p, sci) ==
    IF b.error # "none" \/ p.perimeter_cost_factor = 0 \/ sci > b.next_segment_contact_id
    THEN b
    ELSE AddPerimeterCosts(
             AddPerimeterCost(b, p, sci,
                 calc_perimeter_cost(b.sci2segment_contacts[sci], b.segments)),
             p, sci + 1)

BuilderInit ==
    [error |-> "none", segments |-> <<>>, tli2segment |-> <<>>, next_segment_id |-> 0,
     sci2segment_contacts |-> <<>>, next_segment_contact_id |-> 0,
     processed_loop_pair_ids |-> {}, vpi2weights |-> <<>>, tli2heaviest_vgi |-> <<>>,
     vertex_pair_shift |-> 0, loop_pair_shift |-> 0,
     this_segment |-> 0, this_heaviest_vertex_group_index |-> -1,
     this_segment_contact_perimeter |-> 0, edge_length |-> -1,
     this_loop_vertex_group_weight_cost |-> 0,
     segment_ret |-> 0, heaviest_vgi |-> -1, weight_sum |-> 0]

\* _calc_segment_contacts: the builder state at return; segment_count is
\* next_segment_id (len(tli2segment)); error is the exception raised, if any
calc_segment_contacts(m, p) ==
    IF m.nverts = 0 \/ 3 * m.ntris = 0      \* math.log2(0) at line 447 or line 500
    THEN [BuilderInit EXCEPT !.error = "ValueError"]
    ELSE AddPerimeterCosts(
             BuildTriangles(
                 [BuilderInit EXCEPT !.vertex_pair_shift = PairShift(m.nverts),
                                     !.loop_pair_shift = PairShift(3 * m.ntris)],
                 m, p, calc_vi2vgi2weights(m, p.ignore_vertex_group_indices), 0),
             p, 1)

(***************************************************************************)
(* The priority-ordered contact list                                       *)
(***************************************************************************)
get_cost_normalized(contacts, sci) == contacts[sci].cost_normalized

\* bisect.bisect_left(list, x, key=_get_cost_normalized), as a 0-based index
RECURSIVE BisectLeftFrom(_, _, _, _)
BisectLeftFrom(list, contacts, x, i) ==
    IF i >= Len(list) THEN i
    ELSE IF RLt(get_cost_normalized(contacts, list[i + 1]), x)
    THEN BisectLeftFrom(list, contacts, x, i + 1)
    ELSE i

bisect_left(list, contacts, x) == BisectLeftFrom(list, contacts, x, 0)

\* bisect.bisect_right, used by the stable sorted() of line 259
RECURSIVE BisectRightFrom(_, _, _, _)
BisectRightFrom(list, contacts, x, i) ==
    IF i >= Len(list) THEN i
    ELSE IF RLeq(get_cost_normalized(contacts, list[i + 1]), x)
    THEN BisectRightFrom(list, contacts, x, i + 1)
    ELSE i

InsertAt(list, i, x) == SubSeq(list, 1, i) \o <<x>> \o SubSeq(list, i + 1, Len(list))

DeleteAt(list, i) == SubSeq(list, 1, i) \o SubSeq(list, i + 2, Len(list))

\* sorted(sci2segment_contacts.values(), key=_get_cost_normalized): stable on the
\* dict's insertion order, which is ascending contact id
RECURSIVE SortedFrom(_, _, _, _)
SortedFrom(contacts, last, sci, acc) ==
    IF sci > last THEN acc
    ELSE IF sci \notin DOMAIN contacts THEN SortedFrom(contacts, last, sci + 1, acc)
    ELSE SortedFrom(contacts, last, sci + 1,
            InsertAt(acc, BisectRightFrom(acc, contacts, contacts[sci].cost_normalized, 0), sci))

\* the first index i >= start with list[i] = sci, or Len(list) when there is none
RECURSIVE IndexFrom(_, _, _)
IndexFrom(list, sci, i) ==
    IF i >= Len(list) THEN Len(list)
    ELSE IF list[i + 1] = sci THEN i
    ELSE IndexFrom(list, sci, i + 1)

Restrict(f, S) == [x \in S |-> f[x]]

\* _remove_segment_contact on a run record r
remove_segment_contact(r, sci) ==
    LET sc == r.sci2segment_contacts[sci]
        list == r.cost_sorted_segment_contacts
        i == IndexFrom(list, sci, bisect_left(list, r.sci2segment_contacts, sc.cost_normalized))
    IN  [r EXCEPT
            !.sci2segment_contacts = Restrict(@, (DOMAIN @) \ {sci}),
            !.segments = [@ EXCEPT ![sc.segment0].segment_contact_ids = @ \ {sci},
                                   ![sc.segment1].segment_contact_ids = @ \ {sci}],
            !.cost_sorted_segment_contacts = IF i < Len(list) THEN DeleteAt(list, i) ELSE list]

\* a faulty variant of segment_replace: only segment1 is compared with src
segment_replace_second(sc, src, dst) ==
    IF sc.segment1 = src
    THEN <<[sc EXCEPT !.segment1 = dst], TRUE>>
    ELSE <<sc, FALSE>>

\* SegmentContact.segment_replace: <<the contact after the call, the value returned>>
segment_replace(sc, src, dst) ==
    IF sc.segment0 = src
    THEN <<[sc EXCEPT !.segment0 = dst,
                      !.segment1 = IF sc.segment1 = src THEN dst ELSE @], TRUE>>
    ELSE IF sc.segment1 = src
    THEN <<[sc EXCEPT !.segment1 = dst], TRUE>>
    ELSE <<sc, FALSE>>

(***************************************************************************)
(* auto_segment on a run record r: the locals of one call.  Each operator  *)
(* is one stretch of the function, from run record to run record.          *)
(***************************************************************************)
RunInit ==
    [pc |-> "build", error |-> "none", segments |-> <<>>,
     sci2segment_contacts |-> <<>>, cost_sorted_segment_contacts |-> <<>>,
     merging |-> FALSE, scan_index |-> 0, result_segments |-> {},
     last_merged_cost |-> RInt(0), merge_log |-> <<>>, segment_pair_shift |-> 0]

\* lines 254-281 on the builder's result b: the early return, the initial sort
StartMerge(b) ==
    IF b.error # "none"
    THEN [RunInit EXCEPT !.pc = "error", !.error = b.error]
    ELSE IF b.next_segment_id = 0
    THEN [RunInit EXCEPT !.pc = "done"]          \* SegmentResult(set(), [], 0.0, [])
    ELSE [RunInit EXCEPT
            !.pc = "while",
            !.segments = b.segments,
            !.sci2segment_contacts = b.sci2segment_contacts,
            !.segment_pair_shift = PairShift(b.next_segment_id),
            !.cost_sorted_segment_contacts =
                SortedFrom(b.sci2segment_contacts, b.next_segment_contact_id, 1, <<>>),
            !.merging = TRUE]

\* lines 239-281
AfterBuild(m, p) == StartMerge(calc_segment_contacts(m, p))

\* line 289: cost > cost_threshold
OverThreshold(cost, p) == RLt(RInt(p.cost_threshold), cost)

\* a faulty variant of the area guard: the area of src is left out of the sum
AreaRejectedDstAlone(dst_area, src_area, p) ==
    /\ src_area > p.minimum_area_threshold
    /\ dst_area > p.maximum_area_threshold

\* line 296: the area guard that rejects a merge
AreaRejected(dst_area, src_area, p) ==
    /\ src_area > p.minimum_area_threshold
    /\ dst_area + src_area > p.maximum_area_threshold

\* the contact the list iterator of line 285 yields next
CurrentContact(r) == r.cost_sorted_segment_contacts[r.scan_index + 1]

Exhausted(r) == r.scan_index >= Len(r.cost_sorted_segment_contacts)

\* a faulty variant of RepointOne: the re-pointed contact is not entered in dst's ids
RepointOneUnregistered(r, dst, src_sci, rep) ==
    IF ~rep[2] THEN r
    ELSE IF rep[1].segment0 = rep[1].segment1
    THEN remove_segment_contact([r EXCEPT !.sci2segment_contacts[src_sci] = rep[1]], src_sci)
    ELSE [r EXCEPT !.sci2segment_contacts[src_sci] = rep[1]]

\* lines 311-315 for one contact of src, rep = segment_replace's <<contact, returned>>
RepointOne(r, dst, src_sci, rep) ==
    IF ~rep[2] THEN r
    ELSE IF rep[1].segment0 = rep[1].segment1
    THEN remove_segment_contact([r EXCEPT !.sci2segment_contacts[src_sci] = rep[1]], src_sci)
    ELSE [r EXCEPT !.sci2segment_contacts[src_sci] = rep[1],
                   !.segments[dst].segment_contact_ids = @ \cup {src_sci}]

\* lines 309-315: the loop over src_segment_contact_ids (ids: those still to visit);
\* the visits do not depend on each other, so the order is immaterial
RECURSIVE Repoint(_, _, _, _)
Repoint(r, src, dst, ids) ==
    IF ids = {} \/ r.error # "none" THEN r
    ELSE LET src_sci == CHOOSE x \in ids : \A y \in ids : x <= y
         IN  IF src_sci \notin DOMAIN r.sci2segment_contacts
             THEN [r EXCEPT !.error = "KeyError"]
             ELSE Repoint(RepointOne(r, dst, src_sci,
                              segment_replace(r.sci2segment_contacts[src_sci], src, dst)),
                          src, dst, ids \ {src_sci})

\* a faulty variant of Absorb: the member triangles of src are not handed to dst
AbsorbAreaOnly(r, sci) ==
    LET sc  == r.sci2segment_contacts[sci]
        dst == sc.segment0
        src == sc.segment1
    IN  [r EXCEPT
            !.merging = TRUE,
            !.last_merged_cost = sc.cost_normalized,
            !.merge_log = Append(@, [sci |-> sci, cost |-> sc.cost_normalized,
                                     dst |-> dst, src |-> src,
                                     dst_area |-> r.segments[dst].area,
                                     src_area |-> r.segments[src].area]),
            !.segments[dst].area = @ + r.segments[src].area]

\* a faulty variant of Absorb: the area of src is not added to dst
AbsorbMembersOnly(r, sci) ==
    LET sc  == r.sci2segment_contacts[sci]
        dst == sc.segment0
        src == sc.segment1
    IN  [r EXCEPT
            !.merging = TRUE,
            !.last_merged_cost = sc.cost_normalized,
            !.merge_log = Append(@, [sci |-> sci, cost |-> sc.cost_normalized,
                                     dst |-> dst, src |-> src,
                                     dst_area |-> r.segments[dst].area,
                                     src_area |-> r.segments[src].area]),
            !.segments[dst].tri_loop0s = @ \cup r.segments[src].tri_loop0s]

\* a faulty variant of Absorb: last_merged_cost takes the raw cost of the contact
AbsorbRawCost(r, sci) ==
    LET sc  == r.sci2segment_contacts[sci]
        dst == sc.segment0
        src == sc.segment1
    IN  [r EXCEPT
            !.merging = TRUE,
            !.last_merged_cost = sc.cost,
            !.merge_log = Append(@, [sci |-> sci, cost |-> sc.cost_normalized,
                                     dst |-> dst, src |-> src,
                                     dst_area |-> r.segments[dst].area,
                                     src_area |-> r.segments[src].area]),
            !.segments[dst].tri_loop0s = @ \cup r.segments[src].tri_loop0s,
            !.segments[dst].area = @ + r.segments[src].area]

\* lines 299-303: the merge is accepted, src's triangles and area go to dst
Absorb(r, sci) ==
    LET sc  == r.sci2segment_contacts[sci]
        dst == sc.segment0
        src == sc.segment1
    IN  [r EXCEPT
            !.merging = TRUE,
            !.last_merged_cost = sc.cost_normalized,
            !.merge_log = Append(@, [sci |-> sci, cost |-> sc.cost_normalized,
                                     dst |-> dst, src |-> src,
                                     dst_area |-> r.segments[dst].area,
                                     src_area |-> r.segments[src].area]),
            !.segments[dst].tri_loop0s = @ \cup r.segments[src].tri_loop0s,
            !.segments[dst].area = @ + r.segments[src].area]

RepointFrom(r, src, dst) == Repoint(r, src, dst, r.segments[src].segment_contact_ids)

\* lines 299-315: an accepted merge of the contact sci, up to the re-pointing
MergeAccept(r, sci) ==
    RepointFrom(remove_segment_contact(Absorb(r, sci), sci),
                r.sci2segment_contacts[sci].segment1,
                r.sci2segment_contacts[sci].segment0)

\* a faulty variant of the grouping: the key keeps the order of the endpoints, so
\* that contacts (a, b) and (b, a) fall in different groups
MergableGroupsOrdered(r, dst) ==
    LET ids == r.segments[dst].segment_contact_ids
        spi(c) == <<r.sci2segment_contacts[c].segment0, r.sci2segment_contacts[c].segment1>>
    IN  {g \in {{c \in ids : spi(c) = spi(d)} : d \in ids} : Cardinality(g) > 1}

\* lines 328-333: dst's contacts grouped by segment pair id; the groups of two or more
MergableGroups(r, dst) ==
    LET ids == r.segments[dst].segment_contact_ids
        spi(c) == to_segment_pair_id(r.sci2segment_contacts[c].segment0,
                                     r.sci2segment_contacts[c].segment1,
                                     r.segment_pair_shift)
    IN  {g \in {{c \in ids : spi(c) = spi(d)} : d \in ids} : Cardinality(g) > 1}

\* The sets of lines 330, 336 and 341 are iterated in an order the language leaves
\* open: every order of the groups, and every choice of the survivor of each
\* (the first contact its set yields), as a list of survivors in processing order
RECURSIVE SurvivorOrders(_)
SurvivorOrders(G) ==
    IF G = {} THEN {<<>>}
    ELSE UNION {UNION {{<<sv>> \o rest : rest \in SurvivorOrders(G \ {g})} : sv \in g} : g \in G}

RECURSIVE SumCost(_, _)
SumCost(contacts, ids) ==
    IF ids = {} THEN RInt(0)
    ELSE LET c == CHOOSE x \in ids : TRUE
         IN  RAdd(contacts[c].cost, SumCost(contacts, ids \ {c}))

RECURSIVE SumLength(_, _)
SumLength(contacts, ids) ==
    IF ids = {} THEN 0
    ELSE LET c == CHOOSE x \in ids : TRUE
         IN  contacts[c].length + SumLength(contacts, ids \ {c})

RECURSIVE RemoveAll(_, _)
RemoveAll(r, ids) ==
    IF ids = {} THEN r
    ELSE LET c == CHOOSE x \in ids : \A y \in ids : x <= y
         IN  RemoveAll(remove_segment_contact(r, c), ids \ {c})

\* the survivor's cost_normalized of lines 356-358
MergedCostNormalized(sc, segs, p) ==
    LET pcost == IF p.perimeter_cost_factor # 0
                 THEN calc_perimeter_cost(sc, segs)
                 ELSE [err |-> FALSE, val |-> RInt(0)]
    IN  IF pcost.err \/ LengthDivisorIsZero(sc.length, p.contact_length_factor)
        THEN [err |-> TRUE, val |-> RInt(0)]
        ELSE [err |-> FALSE,
              val |-> RAdd(RMul(RInt(p.perimeter_cost_factor), pcost.val),
                           LengthNormalized(sc.cost, sc.length, p.contact_length_factor))]

\* a faulty variant of Accumulate: the lengths of the folded contacts are dropped
AccumulateCostOnly(r, merged_sc, others) ==
    [r EXCEPT !.sci2segment_contacts[merged_sc].cost =
                  RAdd(@, SumCost(r.sci2segment_contacts, others))]

\* lines 343-344, summed over the contacts folded into merged_sc
Accumulate(r, merged_sc, others) ==
    [r EXCEPT !.sci2segment_contacts[merged_sc].cost =
                  RAdd(@, SumCost(r.sci2segment_contacts, others)),
              !.sci2segment_contacts[merged_sc].length =
                  @ + SumLength(r.sci2segment_contacts, others)]

\* lines 347-353: the index i the search loop ends with
SurvivorIndex(r, merged_sc) ==
    LET list == r.cost_sorted_segment_contacts
        found == IndexFrom(list, merged_sc,
                     bisect_left(list, r.sci2segment_contacts,
                                 r.sci2segment_contacts[merged_sc].cost_normalized))
    IN  IF found < Len(list) THEN found ELSE Len(list) - 1

\* a faulty variant of insort_left: x is appended whatever its cost
insort_last(r, x) ==
    [r EXCEPT !.cost_sorted_segment_contacts = Append(@, x)]

\* bisect.insort_left(list, x, key=_get_cost_normalized)
insort_left(r, x) ==
    [r EXCEPT !.cost_sorted_segment_contacts =
        InsertAt(@, bisect_left(@, r.sci2segment_contacts,
                                r.sci2segment_contacts[x].cost_normalized), x)]

\* lines 356-359: the new cost_normalized cn, then list.pop(i) and insort_left
Reinsert(r, merged_sc, i, cn) ==
    IF cn.err THEN [r EXCEPT !.error = "ZeroDivisionError"]
    ELSE insort_left([r EXCEPT !.sci2segment_contacts[merged_sc].cost_normalized = cn.val,
                               !.cost_sorted_segment_contacts = DeleteAt(@, i)],
                     r.cost_sorted_segment_contacts[i + 1])

Reposition(r, p, merged_sc) ==
    Reinsert(r, merged_sc, SurvivorIndex(r, merged_sc),
             MergedCostNormalized(r.sci2segment_contacts[merged_sc], r.segments, p))

\* lines 340-359: one group of parallel contacts folded into merged_sc
CollapseGroup(r, p, merged_sc, group) ==
    Reposition(RemoveAll(Accumulate(r, merged_sc, group \ {merged_sc}),
                         group \ {merged_sc}),
               p, merged_sc)

\* lines 336-359: the groups in the order of their survivors
RECURSIVE CollapseGroups(_, _, _, _)
CollapseGroups(r, p, groups, order) ==
    IF order = <<>> \/ r.error # "none" THEN r
    ELSE CollapseGroups(
             CollapseGroup(r, p, Head(order), CHOOSE x \in groups : Head(order) \in x),
             p, groups, Tail(order))

\* lines 323-326: dst.perimeter recomputed from its live contacts
UpdatePerimeter(r, p, dst) ==
    IF p.perimeter_cost_factor # 0 /\ r.error = "none"
    THEN [r EXCEPT !.segments[dst].perimeter =
             r.segments[dst].non_contact_perimeter
             + SumLength(r.sci2segment_contacts, r.segments[dst].segment_contact_ids)]
    ELSE r

\* lines 328-359
Collapse(r, p, dst, order) == CollapseGroups(r, p, MergableGroups(r, dst), order)

\* an exception leaves auto_segment
Raise(r) == IF r.error # "none" THEN [r EXCEPT !.pc = "error"] ELSE r

\* the list iterator of line 285 yields its next item
Advance(r) == [r EXCEPT !.scan_index = @ + 1]

\* a faulty variant of the loop head: merging is not reset
WhileEnterKeepsMerging(r) == [r EXCEPT !.scan_index = 0, !.pc = "for"]

\* line 282-283: while merging: merging = False, and the for loop starts
WhileEnterR(r) == [r EXCEPT !.merging = FALSE, !.scan_index = 0, !.pc = "for"]

\* a faulty variant of the exit: the endpoints of the remaining contacts are not added
WhileExitBare(r) == [r EXCEPT !.pc = "done"]

\* lines 364-366: the loop is left; the endpoints of the remaining contacts are added
WhileExitR(r) ==
    [r EXCEPT !.pc = "done",
              !.result_segments = @ \cup
                  UNION {{r.sci2segment_contacts[c].segment0, r.sci2segment_contacts[c].segment1} :
                         c \in {r.cost_sorted_segment_contacts[i] :
                                i \in 1..Len(r.cost_sorted_segment_contacts)}}]

\* line 285: the list iterator is exhausted
ForExhaustedR(r) == [r EXCEPT !.pc = "while"]

\* lines 289-290: break
ForBreakR(r) == [Advance(r) EXCEPT !.pc = "while"]

\* a faulty variant of the rejection: the scan is left instead of continued
ForRejectStops(r) == [Advance(r) EXCEPT !.pc = "while"]

\* lines 296-297: continue
ForRejectR(r) == Advance(r)

\* a faulty variant of AddResult: the isolated dst is not entered in the result set
AddResultSkipped(r, dst) == r

\* lines 317-321: dst is isolated
AddResult(r, dst) == [r EXCEPT !.result_segments = @ \cup {dst}]

\* lines 299-321: the merge leaves dst without contacts; continue
MergeIsolatedR(r) ==
    Raise(AddResult(MergeAccept(Advance(r), CurrentContact(r)),
                    r.sci2segment_contacts[CurrentContact(r)].segment0))

\* line 362: break
BreakFor(r) == [r EXCEPT !.pc = "while"]

\* lines 299-362: the merge, the collapse of parallel contacts, break
MergeCollapseR(r, p, order) ==
    Raise(BreakFor(
        Collapse(UpdatePerimeter(MergeAccept(Advance(r), CurrentContact(r)), p,
                                 r.sci2segment_contacts[CurrentContact(r)].segment0),
                 p, r.sci2segment_contacts[CurrentContact(r)].segment0, order)))

\* line 317 after the merge
IsolatedOrCollapse(r, dst) ==
    IF r.error # "none" \/ r.segments[dst].segment_contact_ids = {}
    THEN "isolated" ELSE "collapse"

\* what the for loop does with the contact it is at
ForCase(r, p) ==
    IF Exhausted(r) THEN "exhausted"
    ELSE LET sc == r.sci2segment_contacts[CurrentContact(r)]
         IN  IF OverThreshold(sc.cost_normalized, p) THEN "break"
             ELSE IF AreaRejected(r.segments[sc.segment0].area, r.segments[sc.segment1].area, p)
             THEN "reject"
             ELSE IsolatedOrCollapse(MergeAccept(r, CurrentContact(r)), sc.segment0)

\* the survivor orders open to the collapse step at r
CollapseOrders(r) ==
    SurvivorOrders(MergableGroups(MergeAccept(r, CurrentContact(r)),
                                  r.sci2segment_contacts[CurrentContact(r)].segment0))

\* every run record auto_segment can step to from r
Successors(r, m, p) ==
    IF r.pc = "build" THEN {AfterBuild(m, p)}
    ELSE IF r.pc = "while" THEN {IF r.merging THEN WhileEnterR(r) ELSE WhileExitR(r)}
    ELSE IF r.pc # "for" THEN {}
    ELSE IF ForCase(r, p) = "exhausted" THEN {ForExhaustedR(r)}
    ELSE IF ForCase(r, p) = "break" THEN {ForBreakR(r)}
    ELSE IF ForCase(r, p) = "reject" THEN {ForRejectR(r)}
    ELSE IF ForCase(r, p) = "isolated" THEN {MergeIsolatedR(r)}
    ELSE {MergeCollapseR(r, p, o) : o \in CollapseOrders(r)}

(***************************************************************************)
(* Inputs: meshes and parameter sets                                       *)
(***************************************************************************)
MaxArea == 2       \* triangle areas are drawn from 1..MaxArea

MaxLen == 2        \* the length of a varied edge is drawn from 1..MaxLen

Topology(nverts, loop_vert, radial) ==
    [nverts |-> nverts, ntris |-> Len(loop_vert) \div 3,
     loop_vert |-> Z(loop_vert), radial |-> Z(radial)]

\* two triangles sharing the edge of loops 0 and 3
Pair == Topology(4, <<0, 1, 2, 1, 0, 3>>, <<3, 1, 2, 0, 4, 5>>)

\* three triangles around vertex 0, each adjacent to the other two
Fan3 == Topology(4, <<0, 1, 2, 0, 2, 3, 0, 3, 1>>, <<8, 1, 3, 2, 4, 6, 5, 7, 0>>)

\* a strip of three triangles (0 - 2 - 1), in two numberings of its faces
Strip3 == Topology(5, <<2, 1, 3, 4, 1, 0, 0, 1, 2>>, <<7, 1, 2, 3, 6, 5, 4, 0, 8>>)

Strip3b == Topology(5, <<0, 1, 2, 2, 1, 3, 4, 1, 0>>, <<7, 3, 2, 1, 4, 5, 6, 0, 8>>)

\* the four faces of a tetrahedron
Tetra == Topology(4, <<0, 1, 2, 0, 3, 1, 1, 3, 2, 2, 3, 0>>,
                  <<5, 8, 11, 10, 6, 0, 4, 9, 1, 7, 3, 2>>)

\* a 2 x 2 grid of quads, each cut in two triangles, in two numberings of its faces
GridA == Topology(9,
    <<0, 1, 4, 0, 4, 3, 1, 2, 5, 1, 5, 4, 3, 4, 7, 3, 7, 6, 4, 5, 8, 4, 8, 7>>,
    <<0, 11, 3, 2, 12, 5, 6, 7, 9, 8, 18, 1, 4, 23, 15, 14, 16, 17, 10, 19, 21, 20, 22, 13>>)

GridX == Topology(9,
    <<0, 1, 4, 0, 4, 3, 1, 2, 5, 4, 5, 8, 3, 7, 6, 1, 5, 4, 4, 8, 7, 3, 4, 7>>,
    <<0, 17, 3, 2, 21, 5, 6, 7, 15, 16, 10, 18, 23, 13, 14, 8, 9, 1, 11, 19, 22, 4, 20, 12>>)

\* two components: the pair, and a strip of three triangles (3 - 2 - 4)
PairStrip == Topology(9,
    <<0, 1, 2, 1, 0, 3, 4, 5, 6, 6, 5, 7, 8, 5, 4>>,
    <<3, 1, 2, 0, 4, 5, 13, 9, 8, 7, 10, 11, 12, 6, 14>>)

\* two triangles on the same three vertices, sharing all three edges
Pillow == Topology(3, <<0, 1, 2, 0, 2, 1>>, <<5, 4, 3, 2, 1, 0>>)

\* no triangle at all, with and without vertices
NoTriangles(nverts) == Topology(nverts, <<>>, <<>>)

Tris(t) == 0..(t.ntris - 1)

Loops(t) == 0..(3 * t.ntris - 1)

Verts(t) == 0..(t.nverts - 1)

\* a flat, smooth, seamless mesh without vertex groups on topology t
PlainMesh(t, select, material, area, elen) ==
    [nverts |-> t.nverts, ntris |-> t.ntris, loop_vert |-> t.loop_vert, radial |-> t.radial,
     select |-> select, material |-> material, area |-> area, elen |-> elen,
     normal |-> [f \in Tris(t) |-> 0],
     smooth |-> [l \in Loops(t) |-> TRUE],
     seam |-> [l \in Loops(t) |-> FALSE],
     weights |-> [v \in Verts(t) |-> <<>>]]

AllSelected(t) == [f \in Tris(t) |-> TRUE]

UnitLengths(t) == [l \in Loops(t) |-> 1]

UnitAreas(t) == [f \in Tris(t) |-> 1]

OneMaterial(t) == [f \in Tris(t) |-> 0]

\* materials with triangle 0 on material 0
Materials(t) == {mat \in [Tris(t) -> {0, 1}] : mat[0] = 0}

\* the keyword arguments: every cost factor 0, no area rejection, threshold 0
BaseParams ==
    [cost_threshold |-> 0, maximum_area_threshold |-> 100, minimum_area_threshold |-> 0,
     contact_length_factor |-> 0, face_angle_cost_factor |-> 0, perimeter_cost_factor |-> 0,
     vertex_group_weight_cost_factor |-> 0, vertex_group_change_cost_factor |-> 0,
     material_change_cost_factor |-> 0, edge_sharp_cost_factor |-> 0,
     edge_seam_cost_factor |-> 0, ignore_vertex_group_indices |-> {}]

Scenario(m, p) == [mesh |-> m, params |-> p]

\* two triangles: every selection, both material patterns, areas, the shared length
PairScenarios ==
    {Scenario(PlainMesh(Pair, sel, mat, ar, [l \in Loops(Pair) |-> IF l \in {0, 3} THEN len ELSE 1]),
              [BaseParams EXCEPT !.material_change_cost_factor = 1,
                                 !.cost_threshold = thr,
                                 !.contact_length_factor = clf,
                                 !.maximum_area_threshold = mx,
                                 !.minimum_area_threshold = mn]) :
        sel \in [Tris(Pair) -> BOOLEAN], mat \in Materials(Pair),
        ar \in [Tris(Pair) -> 1..MaxArea], len \in 1..MaxLen,
        thr \in 0..(MaxLen + 1), clf \in {0, 1}, mx \in {0, 100}, mn \in {0, MaxArea}}

\* meshes without triangles, and meshes with none selected
EmptyScenarios ==
    {Scenario(PlainMesh(NoTriangles(nv), <<>>, <<>>, <<>>, <<>>),
              [BaseParams EXCEPT !.cost_threshold = thr]) : nv \in {0, 3}, thr \in {0, 1}}

\* three mutually adjacent triangles: parallel contacts after the first merge
FanScenarios ==
    {Scenario(PlainMesh(Fan3, AllSelected(Fan3), mat, ar, UnitLengths(Fan3)),
              [BaseParams EXCEPT !.material_change_cost_factor = 1,
                                 !.cost_threshold = thr,
                                 !.contact_length_factor = clf,
                                 !.maximum_area_threshold = mx,
                                 !.minimum_area_threshold = mn]) :
        mat \in Materials(Fan3), ar \in [Tris(Fan3) -> 1..MaxArea],
        thr \in {0, 1}, clf \in {0, 1}, mx \in {MaxArea, 100}, mn \in {0, 1}}

\* the strip in both numberings, every selection
StripScenarios ==
    {Scenario(PlainMesh(t, sel, mat, UnitAreas(t), UnitLengths(t)),
              [BaseParams EXCEPT !.material_change_cost_factor = 1, !.cost_threshold = thr]) :
        t \in {Strip3, Strip3b}, sel \in [Tris(Strip3) -> BOOLEAN],
        mat \in Materials(Strip3), thr \in {0, 1}}

TetraScenarios ==
    {Scenario(PlainMesh(Tetra, AllSelected(Tetra), mat, UnitAreas(Tetra), UnitLengths(Tetra)),
              [BaseParams EXCEPT !.material_change_cost_factor = 1,
                                 !.cost_threshold = thr,
                                 !.maximum_area_threshold = mx,
                                 !.minimum_area_threshold = mn]) :
        mat \in Materials(Tetra), thr \in {0, 1}, mx \in {MaxArea, 100}, mn \in {0, 1}}

\* the flat grid: one material, no vertex groups, every edge smooth and seamless,
\* the six cost factors 1, so that every contact costs 0
FlatGridParams ==
    [BaseParams EXCEPT !.cost_threshold = 1,
                       !.contact_length_factor = 1,
                       !.face_angle_cost_factor = 1,
                       !.vertex_group_weight_cost_factor = 1,
                       !.vertex_group_change_cost_factor = 1,
                       !.material_change_cost_factor = 1,
                       !.edge_sharp_cost_factor = 1,
                       !.edge_seam_cost_factor = 1]

FlatGrid(t) == PlainMesh(t, AllSelected(t), OneMaterial(t), UnitAreas(t), UnitLengths(t))

GridScenarios ==
    {Scenario(FlatGrid(t), [FlatGridParams EXCEPT !.maximum_area_threshold = mx]) :
        t \in {GridA, GridX}, mx \in {0, 100}}

\* vertex groups 0 and 1 on the four vertices of the fan and of the tetrahedron
VertexWeights == Z(<< <<<<0, 1>>>>, <<<<0, 1>>, <<1, 2>>>>, <<<<1, 1>>>>, <<>> >>)

\* the vertex group costs and the perimeter cost at work
WeightedScenarios ==
    {Scenario([PlainMesh(t, AllSelected(t), OneMaterial(t), UnitAreas(t), UnitLengths(t))
                  EXCEPT !.weights = VertexWeights],
              [BaseParams EXCEPT !.vertex_group_weight_cost_factor = 1,
                                 !.vertex_group_change_cost_factor = 1,
                                 !.perimeter_cost_factor = pf,
                                 !.ignore_vertex_group_indices = ig,
                                 !.cost_threshold = thr]) :
        t \in {Fan3, Tetra}, pf \in {0, 1}, ig \in {{}, {1}}, thr \in 1..3}

\* degenerate triangles: area 0, with and without the perimeter cost
DegenerateOn(t) ==
    {Scenario(PlainMesh(t, AllSelected(t), OneMaterial(t), ar, UnitLengths(t)),
              [BaseParams EXCEPT !.perimeter_cost_factor = pf, !.cost_threshold = thr]) :
        ar \in [Tris(t) -> 0..1], pf \in {0, 1}, thr \in {0, 1}}

DegenerateScenarios == DegenerateOn(Pair) \cup DegenerateOn(Fan3)

\* two components with contacts of different costs
PairStripScenarios ==
    {Scenario(PlainMesh(PairStrip, AllSelected(PairStrip), mat, UnitAreas(PairStrip),
                        UnitLengths(PairStrip)),
              [BaseParams EXCEPT !.material_change_cost_factor = 1, !.cost_threshold = thr]) :
        mat \in Materials(PairStrip), thr \in {0, 1}}

\* two triangles with three contacts between them from the start
PillowScenarios ==
    {Scenario(PlainMesh(Pillow, AllSelected(Pillow), mat, UnitAreas(Pillow), UnitLengths(Pillow)),
              [BaseParams EXCEPT !.material_change_cost_factor = 1,
                                 !.perimeter_cost_factor = pf,
                                 !.cost_threshold = thr]) :
        mat \in Materials(Pillow), pf \in {0, 1}, thr \in {0, 1}}

Scenarios ==
    PillowScenarios \cup PairStripScenarios \cup PairScenarios \cup EmptyScenarios \cup FanScenarios \cup StripScenarios
    \cup TetraScenarios \cup GridScenarios \cup WeightedScenarios
    \cup DegenerateScenarios

(***************************************************************************)
(* The state machine                                                       *)
(***************************************************************************)
Run ==
    [pc |-> pc, error |-> error, segments |-> segments,
     sci2segment_contacts |-> sci2segment_contacts,
     cost_sorted_segment_contacts |-> cost_sorted_segment_contacts,
     merging |-> merging, scan_index |-> scan_index, result_segments |-> result_segments,
     last_merged_cost |-> last_merged_cost, merge_log |-> merge_log,
     segment_pair_shift |-> segment_pair_shift]

SetRun(r) ==
    /\ pc' = r.pc
    /\ error' = r.error
    /\ segments' = r.segments
    /\ sci2segment_contacts' = r.sci2segment_contacts
    /\ cost_sorted_segment_contacts' = r.cost_sorted_segment_contacts
    /\ merging' = r.merging
    /\ scan_index' = r.scan_index
    /\ result_segments' = r.result_segments
    /\ last_merged_cost' = r.last_merged_cost
    /\ merge_log' = r.merge_log
    /\ segment_pair_shift' = r.segment_pair_shift
    /\ UNCHANGED <<mesh, params, twin>>

Init ==
    /\ \E sc \in Scenarios : mesh = sc.mesh /\ params = sc.params
    /\ pc = "build"
    /\ error = "none"
    /\ segments = <<>>
    /\ sci2segment_contacts = <<>>
    /\ cost_sorted_segment_contacts = <<>>
    /\ merging = FALSE
    /\ scan_index = 0
    /\ result_segments = {}
    /\ last_merged_cost = RInt(0)
    /\ merge_log = <<>>
    /\ segment_pair_shift = 0
    /\ twin = RunInit

\* lines 239-281
CalcSegmentContacts == pc = "build" /\ SetRun(AfterBuild(mesh, params))

\* line 282, the loop goes on
WhileEnter == pc = "while" /\ merging /\ SetRun(WhileEnterR(Run))

\* line 282, the loop ends; lines 364-366
WhileExit == pc = "while" /\ ~merging /\ SetRun(WhileExitR(Run))

ForExhausted == pc = "for" /\ ForCase(Run, params) = "exhausted" /\ SetRun(ForExhaustedR(Run))

ForBreak == pc = "for" /\ ForCase(Run, params) = "break" /\ SetRun(ForBreakR(Run))

ForReject == pc = "for" /\ ForCase(Run, params) = "reject" /\ SetRun(ForRejectR(Run))

MergeIsolated == pc = "for" /\ ForCase(Run, params) = "isolated" /\ SetRun(MergeIsolatedR(Run))

MergeCollapse ==
    /\ pc = "for"
    /\ ForCase(Run, params) = "collapse"
    /\ \E order \in CollapseOrders(Run) : SetRun(MergeCollapseR(Run, params, order))

Next ==
    \/ CalcSegmentContacts
    \/ WhileEnter
    \/ WhileExit
    \/ ForExhausted
    \/ ForBreak
    \/ ForReject
    \/ MergeIsolated
    \/ MergeCollapse

Spec == Init /\ [][Next]_vars

\* auto_segment is one call that runs on until it returns or raises: a run takes steps
\* of Next again and again unless it has stopped.  Next is enabled exactly in the states
\* that are not stopped (pc is "build", "while" or "for", and ForCase is total), so this
\* is weak fairness of Next.
SpecFair == Spec /\ ([]<>(pc \in {"done", "error"}) \/ []<><<Next>>_vars)

\* the second call of auto_segment on the same mesh and arguments, after the first
TwinStep ==
    /\ pc \in {"done", "error"}
    /\ \E r \in Successors(twin, mesh, params) : twin' = r
    /\ UNCHANGED <<mesh, params, pc, error, segments, sci2segment_contacts,
                   cost_sorted_segment_contacts, merging, scan_index, result_segments,
                   last_merged_cost, segment_pair_shift, merge_log>>

NextTwin == Next \/ TwinStep

SpecTwin == Init /\ [][NextTwin]_vars

(***************************************************************************)
(* Properties of auto_segment                                              *)
(***************************************************************************)
Done == pc = "done"

\* a triangle is named by the index of its first loop
SelectedTriangles == {3 * f : f \in {g \in Tris(mesh) : mesh.select[g]}}

MemberSet(s) == segments[s].tri_loop0s

\* the member sets of the returned segments
Partition == {MemberSet(s) : s \in result_segments}

Singletons(S) == {{t} : t \in S}

LiveContacts == DOMAIN sci2segment_contacts

Endpoints(c) == {sci2segment_contacts[c].segment0, sci2segment_contacts[c].segment1}

Adjacent(f, g) == f # g /\ \E l \in {3 * f, 3 * f + 1, 3 * f + 2} : LoopFace(mesh.radial[l]) = g

\* the selected triangles none of whose neighbours is selected
LoneTriangles ==
    {f \in Tris(mesh) : mesh.select[f]
                        /\ \A g \in Tris(mesh) : Adjacent(f, g) => ~mesh.select[g]}

IsPair == mesh.ntris = 2 /\ mesh.loop_vert = Pair.loop_vert

IsFan == mesh.ntris = 3 /\ mesh.loop_vert = Fan3.loop_vert

IsFlatGrid == mesh \in {FlatGrid(GridA), FlatGrid(GridX)}

\* C1 -- Partition completeness: when auto_segment returns, the union of the member
\* sets of the returned segments is exactly the set of selected triangles, and the
\* member sets of two different returned segments are disjoint.
PartitionComplete ==
    Done => /\ UNION Partition = SelectedTriangles
            /\ \A s, t \in result_segments :
                   s # t => MemberSet(s) \cap MemberSet(t) = {}

\* C2 -- Selection boundary: for two triangles sharing an edge of which exactly one is
\* selected, no contact is created and the result is exactly one segment holding the
\* selected triangle; and every selected triangle without a selected neighbour is the
\* single member of a returned segment.
SelectionBoundary ==
    /\ (IsPair /\ Cardinality(SelectedTriangles) = 1 /\ pc # "build")
           => LiveContacts = {} /\ merge_log = <<>>
    /\ (IsPair /\ Cardinality(SelectedTriangles) = 1 /\ Done)
           => Partition = {SelectedTriangles}
    /\ Done => \A f \in LoneTriangles : \E s \in result_segments : MemberSet(s) = {3 * f}

\* cost_threshold is strictly below the normalized cost of every contact the builder
\* produces for the input
ThresholdBelowEveryContact ==
    \A c \in DOMAIN calc_segment_contacts(mesh, params).sci2segment_contacts :
        RLt(RInt(params.cost_threshold),
            calc_segment_contacts(mesh, params).sci2segment_contacts[c].cost_normalized)

\* C3 -- No-merge baseline: when cost_threshold is strictly below the normalized cost of
\* every contact the builder produces, no merge is accepted and the result is one
\* single-triangle segment per selected triangle.
NoMergeBaseline ==
    (Done /\ ThresholdBelowEveryContact)
        => merge_log = <<>> /\ Partition = Singletons(SelectedTriangles)

\* C4 -- Area guard: whenever the loop accepts a merge, the contact it is at has, in the
\* state before the merge, src.area <= minimum_area_threshold or
\* dst.area + src.area <= maximum_area_threshold (dst its first, src its second
\* endpoint) and a normalized cost <= cost_threshold; the merge adds src.area to dst.area.
AreaGuardRespected ==
    [][Len(merge_log') > Len(merge_log) =>
        /\ \/ segments[sci2segment_contacts[CurrentContact(Run)].segment1].area
                  <= params.minimum_area_threshold
           \/ segments[sci2segment_contacts[CurrentContact(Run)].segment0].area
                  + segments[sci2segment_contacts[CurrentContact(Run)].segment1].area
                  <= params.maximum_area_threshold
        /\ RLeq(sci2segment_contacts[CurrentContact(Run)].cost_normalized,
                RInt(params.cost_threshold))
        /\ segments'[sci2segment_contacts[CurrentContact(Run)].segment0].area
               = segments[sci2segment_contacts[CurrentContact(Run)].segment0].area
                 + segments[sci2segment_contacts[CurrentContact(Run)].segment1].area]_vars

\* a merge was accepted through the minimum_area_threshold clause alone: the sum of
\* the two areas exceeds maximum_area_threshold
AreaGuardDecided ==
    \E i \in 1..Len(merge_log) :
        /\ merge_log[i].src_area <= params.minimum_area_threshold
        /\ merge_log[i].dst_area + merge_log[i].src_area > params.maximum_area_threshold

\* no two selected triangles share more than one edge
SimpleAdjacency ==
    \A f \in Tris(mesh) : \A k, l \in {3 * f, 3 * f + 1, 3 * f + 2} :
        (k # l /\ mesh.select[f] /\ mesh.radial[k] # k /\ mesh.radial[l] # l)
            => LoopFace(mesh.radial[k]) # LoopFace(mesh.radial[l])

TwinPartition == {twin.segments[s].tri_loop0s : s \in twin.result_segments}

MergeCosts(log) == [i \in 1..Len(log) |-> log[i].cost]

FlatGridOneSegment ==
    (Done /\ IsFlatGrid /\ params.maximum_area_threshold = 100)
        => /\ Partition = {SelectedTriangles}
           /\ Cardinality(SelectedTriangles) = 8
           /\ cost_sorted_segment_contacts = <<>>
           /\ LiveContacts = {}

\* C8 -- Area lockout: with maximum_area_threshold 0 and every triangle larger than
\* minimum_area_threshold, no merge is accepted and the result is one single-triangle
\* segment per selected triangle; the flat grid gives 8 segments.
AreaLockout ==
    (/\ Done
     /\ params.maximum_area_threshold = 0
     /\ \A f \in Tris(mesh) : mesh.area[f] > params.minimum_area_threshold)
        => /\ merge_log = <<>>
           /\ Partition = Singletons(SelectedTriangles)
           /\ IsFlatGrid => Cardinality(result_segments) = 8

\* two adjacent selected triangles that differ in material alone, with
\* material_change_cost_factor 1, the other cost factors 0, contact_length_factor 0
MaterialPair ==
    /\ IsPair
    /\ Cardinality(SelectedTriangles) = 2
    /\ mesh.material[0] # mesh.material[1]
    /\ params.material_change_cost_factor = 1
    /\ params.contact_length_factor = 0
    /\ params.face_angle_cost_factor = 0
    /\ params.perimeter_cost_factor = 0
    /\ params.vertex_group_weight_cost_factor = 0
    /\ params.vertex_group_change_cost_factor = 0
    /\ params.edge_sharp_cost_factor = 0
    /\ params.edge_seam_cost_factor = 0

\* the length of the edge the two triangles share
SharedLength == mesh.elen[0]

\* C9 -- Material boundary: for the material pair the single contact the builder produces
\* has normalized cost L, the length of the shared edge; with cost_threshold < L the result
\* is two single-triangle segments; with cost_threshold > L and the area guard passing,
\* the result is one segment holding both triangles.
MaterialBoundary ==
    MaterialPair =>
        /\ (pc \in {"while", "for"} /\ merge_log = <<>>)
               => /\ LiveContacts = {1}
                  /\ sci2segment_contacts[1].cost_normalized = RInt(SharedLength)
        /\ (Done /\ params.cost_threshold < SharedLength)
               => merge_log = <<>> /\ Partition = {{0}, {3}}
        /\ (/\ Done
            /\ params.cost_threshold > SharedLength
            /\ \/ mesh.area[1] <= params.minimum_area_threshold
               \/ mesh.area[0] + mesh.area[1] <= params.maximum_area_threshold)
               => /\ Partition = {{0, 3}}
                  /\ MergeCosts(merge_log) = <<RInt(SharedLength)>>

\* the material pair merged over a shared edge longer than 1
MaterialPairMerged ==
    /\ MaterialPair
    /\ Done
    /\ SharedLength > 1
    /\ params.cost_threshold > SharedLength
    /\ Partition = {{0, 3}}

\* C10 -- Zero selected triangles: for a mesh without a selected triangle (a mesh without
\* vertices or without triangles included) auto_segment raises nothing and returns at
\* once an empty partition, no contact, and last merged cost 0.
NothingSelected ==
    SelectedTriangles = {}
        => /\ error = "none"
           /\ pc \in {"build", "done"}
           /\ Done => /\ result_segments = {}
                      /\ cost_sorted_segment_contacts = <<>>
                      /\ last_merged_cost = RInt(0)

\* C11 -- Perimeter-cost numeric guard: with perimeter_cost_factor # 0, a contact with an
\* endpoint of zero area or zero perimeter never makes auto_segment fail with a division
\* by zero, at build time or when parallel contacts are collapsed.
PerimeterCostGuarded ==
    params.perimeter_cost_factor # 0 => error # "ZeroDivisionError"

\* the contacts of SegmentResult.remain_segment_contacts
RemainingContacts ==
    {cost_sorted_segment_contacts[i] : i \in 1..Len(cost_sorted_segment_contacts)}

\* C12 (as stated) -- Remaining contacts on a clean stop: when the merge loop stops at its
\* fixed point, the remaining-contact list that is returned is empty.
RemainingEmptyAtStop ==
    Done => cost_sorted_segment_contacts = <<>>

\* C12 (amended) -- when the merge loop stops at its fixed point, the remaining-contact
\* list that is returned holds exactly the contacts still live, and each of them joins two
\* different returned segments; the list is empty only when no contact is live.
RemainingAreLiveAtStop ==
    Done => /\ RemainingContacts = LiveContacts
            /\ \A c \in RemainingContacts :
                   /\ sci2segment_contacts[c].segment0 # sci2segment_contacts[c].segment1
                   /\ Endpoints(c) \subseteq result_segments

\* a run that stopped at its fixed point with a contact left
StoppedWithContacts ==
    /\ Done
    /\ merge_log # <<>>
    /\ cost_sorted_segment_contacts # <<>>

\* C13 -- Last merged cost: last_merged_cost is 0 as long as no merge was accepted; every
\* accepted merge sets it to the normalized cost the consumed contact has in the state
\* before the merge, and no other step changes it.
LastMergedCostTracked ==
    /\ [](merge_log = <<>> => last_merged_cost = RInt(0))
    /\ [][IF Len(merge_log') > Len(merge_log)
          THEN last_merged_cost'
                   = sci2segment_contacts[CurrentContact(Run)].cost_normalized
          ELSE last_merged_cost' = last_merged_cost]_vars

\* a finished run whose last merge cost differs from its first and from 0
LastCostMoved ==
    /\ Done
    /\ Len(merge_log) >= 2
    /\ last_merged_cost # RInt(0)
    /\ last_merged_cost # merge_log[1].cost

\* the segments absorbed as the src of an accepted merge
Absorbed == {merge_log[i].src : i \in 1..Len(merge_log)}

LiveSegments == (DOMAIN segments) \ Absorbed

\* the graph is built and no exception has left the function
Running == pc \in {"while", "for", "done"}

\* C14 -- Triangle ownership: after the graph build and after every merge step, every
\* selected triangle is a member of exactly one live segment (one not absorbed as the src
\* of an accepted merge), and a live segment holds selected triangles only.
TriangleOwnership ==
    Running =>
        /\ \A t \in SelectedTriangles :
               Cardinality({s \in LiveSegments : t \in MemberSet(s)}) = 1
        /\ \A s \in LiveSegments : MemberSet(s) \subseteq SelectedTriangles

\* after two merges a live segment holds three triangles or more
ThreeTrianglesOwned ==
    /\ pc = "while"
    /\ Len(merge_log) >= 2
    /\ \E s \in LiveSegments : Cardinality(MemberSet(s)) >= 3

\* the live contacts one of whose endpoints is the segment s
ContactsAt(s) == {c \in LiveContacts : s \in Endpoints(c)}

\* C15 -- Bidirectional consistency: after the graph build and after every merge step, the
\* segment_contact_ids of every live segment is exactly the set of the ids of the live
\* contacts that have the segment as segment0 or segment1.
BidirectionalConsistency ==
    Running => \A s \in LiveSegments : segments[s].segment_contact_ids = ContactsAt(s)

\* a merge re-pointed a contact of src to dst: dst holds a contact it did not have
\* before the merge
ContactRepointed ==
    /\ pc = "while"
    /\ Len(merge_log) = 1
    /\ \E c \in LiveContacts :
           /\ merge_log[1].dst \in Endpoints(c)
           /\ c \in segments[merge_log[1].src].segment_contact_ids

\* C16 -- Priority structure: after the graph build and after every merge step,
\* cost_sorted_segment_contacts holds every live contact exactly once and nothing else, in
\* non-decreasing order of the contacts' current cost_normalized.
PriorityStructure ==
    Running =>
        /\ RemainingContacts = LiveContacts
        /\ Len(cost_sorted_segment_contacts) = Cardinality(LiveContacts)
        /\ \A i, j \in 1..Len(cost_sorted_segment_contacts) :
               i < j => RLeq(sci2segment_contacts[cost_sorted_segment_contacts[i]].cost_normalized,
                             sci2segment_contacts[cost_sorted_segment_contacts[j]].cost_normalized)

\* the survivor of a collapse (its length is that of two edges or more) was moved behind
\* a contact created after it, its recomputed cost being the larger
SurvivorMovedBack ==
    /\ pc = "while"
    /\ \E i, j \in 1..Len(cost_sorted_segment_contacts) :
           /\ i < j
           /\ cost_sorted_segment_contacts[i] > cost_sorted_segment_contacts[j]
           /\ sci2segment_contacts[cost_sorted_segment_contacts[j]].length >= 2
           /\ RLt(sci2segment_contacts[cost_sorted_segment_contacts[i]].cost_normalized,
                  sci2segment_contacts[cost_sorted_segment_contacts[j]].cost_normalized)

\* the contact c is within cost_threshold and passes the area guard for its endpoints
Eligible(c) ==
    /\ RLeq(sci2segment_contacts[c].cost_normalized, RInt(params.cost_threshold))
    /\ \/ segments[sci2segment_contacts[c].segment1].area <= params.minimum_area_threshold
       \/ segments[sci2segment_contacts[c].segment0].area
              + segments[sci2segment_contacts[c].segment1].area
              <= params.maximum_area_threshold

\* C17 -- Cheapest-first merging: every accepted merge consumes the first contact of the
\* ascending cost order that is within cost_threshold and passes the area guard: no live
\* contact placed before it in the order is eligible in the state before the merge.
CheapestFirst ==
    [][Len(merge_log') > Len(merge_log) =>
          \A i \in 1..scan_index : ~Eligible(cost_sorted_segment_contacts[i])]_vars

\* C18 -- Stable tie-breaking: during every scan, live contacts of equal normalized cost
\* stand in creation order (ascending contact id), a contact re-inserted
\* after a collapse included.
StableTies ==
    pc = "for" =>
        \A i, j \in 1..Len(cost_sorted_segment_contacts) :
            (/\ i < j
             /\ sci2segment_contacts[cost_sorted_segment_contacts[i]].cost_normalized
                    = sci2segment_contacts[cost_sorted_segment_contacts[j]].cost_normalized)
                => cost_sorted_segment_contacts[i] < cost_sorted_segment_contacts[j]

\* C19 -- Fixed-point condition: when auto_segment returns, every remaining live contact
\* either has a normalized cost above cost_threshold or is rejected by the area guard for
\* its current endpoints; none is left that is within the threshold and area-acceptable.
FixedPoint ==
    Done =>
        \A c \in RemainingContacts :
            \/ OverThreshold(sci2segment_contacts[c].cost_normalized, params)
            \/ AreaRejected(segments[sci2segment_contacts[c].segment0].area,
                            segments[sci2segment_contacts[c].segment1].area, params)

\* a run that merged, and returned a contact within the threshold that the area guard
\* rejects next to a contact that is over the threshold
FixedPointBothKinds ==
    /\ Done
    /\ merge_log # <<>>
    /\ \E c, d \in RemainingContacts :
          /\ ~OverThreshold(sci2segment_contacts[c].cost_normalized, params)
          /\ AreaRejected(segments[sci2segment_contacts[c].segment0].area,
                          segments[sci2segment_contacts[c].segment1].area, params)
          /\ OverThreshold(sci2segment_contacts[d].cost_normalized, params)

\* the merge the step has just accepted
LastMerge == merge_log'[Len(merge_log')]

Merged == Len(merge_log') > Len(merge_log)

\* the live contacts s is an endpoint of after the step
ContactsAfter(s) ==
    {c \in DOMAIN sci2segment_contacts' :
        s \in {sci2segment_contacts'[c].segment0, sci2segment_contacts'[c].segment1}}

\* C20 -- Isolated is terminal: before auto_segment returns, a segment enters the result
\* set exactly in the step in which an accepted merge leaves it without live contacts;
\* from then on it is the endpoint of no live contact, it is neither dst nor src of a
\* later merge, and its member set and its area stay as they are.
IsolatedIsTerminal ==
    [][/\ pc' \in {"while", "for"} =>
              result_segments' \ result_segments =
                  IF Merged /\ ContactsAfter(LastMerge.dst) = {} THEN {LastMerge.dst} ELSE {}
       /\ pc \in {"while", "for"} =>
              \A s \in result_segments :
                  /\ ContactsAt(s) = {}
                  /\ ContactsAfter(s) = {}
                  /\ Merged => s \notin {LastMerge.dst, LastMerge.src}
                  /\ MemberSet(s)' = MemberSet(s)
                  /\ segments'[s].area = segments[s].area]_vars

\* a segment of two or more triangles was isolated by a merge, and a later merge was
\* accepted elsewhere
IsolatedThenMergedOn ==
    /\ pc \in {"while", "for"}
    /\ \E s \in result_segments :
          /\ Cardinality(MemberSet(s)) >= 2
          /\ \E i, j \in 1..Len(merge_log) :
                /\ i < j
                /\ merge_log[i].dst = s
                /\ merge_log[j].dst # s

\* the for loop is at a contact whose merge it accepts
MergeDue == pc = "for" /\ ForCase(Run, params) \in {"isolated", "collapse"} /\ error = "none"

\* the consumed contact, and the run after lines 299-315
Consumed == sci2segment_contacts[CurrentContact(Run)]

Repointed == MergeAccept(Run, CurrentContact(Run))

EndpointsIn(r, c) == {r.sci2segment_contacts[c].segment0, r.sci2segment_contacts[c].segment1}

\* C21 -- Merge re-pointing: after an accepted merge of src into dst the consumed contact
\* is removed, no live contact has src as an endpoint, every contact that linked src to a
\* third segment X links dst to X and is in dst's contact set, every contact that linked
\* src to dst is removed as a self-loop, and the contacts touching neither src nor dst
\* keep their endpoints, cost and length.
MergeRepointing ==
    MergeDue =>
        /\ Repointed.error = "none"
        /\ CurrentContact(Run) \notin DOMAIN Repointed.sci2segment_contacts
        /\ \A c \in DOMAIN Repointed.sci2segment_contacts :
               /\ Consumed.segment1 \notin EndpointsIn(Repointed, c)
               /\ c \in LiveContacts
        /\ \A c \in LiveContacts \ {CurrentContact(Run)} :
               IF Endpoints(c) = {Consumed.segment0, Consumed.segment1}
               THEN /\ c \notin DOMAIN Repointed.sci2segment_contacts
                    /\ \A i \in 1..Len(Repointed.cost_sorted_segment_contacts) :
                           Repointed.cost_sorted_segment_contacts[i] # c
                    /\ c \notin Repointed.segments[Consumed.segment0].segment_contact_ids
               ELSE IF Consumed.segment1 \in Endpoints(c)
               THEN /\ c \in DOMAIN Repointed.sci2segment_contacts
                    /\ EndpointsIn(Repointed, c)
                           = (Endpoints(c) \ {Consumed.segment1}) \cup {Consumed.segment0}
                    /\ c \in Repointed.segments[Consumed.segment0].segment_contact_ids
               ELSE IF Consumed.segment0 \in Endpoints(c)
               THEN c \in DOMAIN Repointed.sci2segment_contacts
               ELSE /\ c \in DOMAIN Repointed.sci2segment_contacts
                    /\ Repointed.sci2segment_contacts[c] = sci2segment_contacts[c]

\* a merge is due whose src has a contact to a third segment, while another contact
\* touches neither src nor dst
RepointWithBystander ==
    /\ MergeDue
    /\ \E c, d \in LiveContacts \ {CurrentContact(Run)} :
          /\ Consumed.segment1 \in Endpoints(c)
          /\ Consumed.segment0 \notin Endpoints(c)
          /\ Endpoints(d) \cap {Consumed.segment0, Consumed.segment1} = {}

\* a merge is due on two segments that are linked by further contacts
RepointWithSelfLoops ==
    /\ MergeDue
    /\ \E c \in LiveContacts \ {CurrentContact(Run)} :
          Endpoints(c) = {Consumed.segment0, Consumed.segment1}

\* the contacts that link dst to x once the merge that is due has re-pointed src's contacts
ParallelTo(x) ==
    {c \in DOMAIN Repointed.sci2segment_contacts :
        EndpointsIn(Repointed, c) = {Consumed.segment0, x}}

ListedAfter == {cost_sorted_segment_contacts'[i] : i \in 1..Len(cost_sorted_segment_contacts')}

\* C22 -- Parallel-contact collapse: when after a merge dst has k > 1 live contacts to the
\* same other segment, exactly one of them survives, with raw cost the sum of the k raw
\* costs and length the sum of the k lengths; the other k - 1 are removed from the map, the
\* list and both id sets; the survivor's normalized cost is cost / (length *
\* contact_length_factor) when contact_length_factor > 0, else cost, plus
\* perimeter_cost_factor times the perimeter cost when that factor is not 0.
ParallelCollapse ==
    [][(MergeDue /\ pc' # "error") =>
          \A x \in DOMAIN segments :
              Cardinality(ParallelTo(x)) > 1 =>
                  \E sv \in ParallelTo(x) :
                      /\ ParallelTo(x) \cap DOMAIN sci2segment_contacts' = {sv}
                      /\ ParallelTo(x) \cap ListedAfter = {sv}
                      /\ ParallelTo(x) \cap segments'[Consumed.segment0].segment_contact_ids = {sv}
                      /\ ParallelTo(x) \cap segments'[x].segment_contact_ids = {sv}
                      /\ sci2segment_contacts'[sv].cost
                             = SumCost(Repointed.sci2segment_contacts, ParallelTo(x))
                      /\ sci2segment_contacts'[sv].length
                             = SumLength(Repointed.sci2segment_contacts, ParallelTo(x))
                      /\ sci2segment_contacts'[sv].cost_normalized
                             = RAdd(IF params.perimeter_cost_factor # 0
                                    THEN RMul(RInt(params.perimeter_cost_factor),
                                              calc_perimeter_cost(sci2segment_contacts'[sv],
                                                                  segments').val)
                                    ELSE RInt(0),
                                    IF params.contact_length_factor > 0
                                    THEN RMul(sci2segment_contacts'[sv].cost,
                                              Rat(1, sci2segment_contacts'[sv].length
                                                         * params.contact_length_factor))
                                    ELSE sci2segment_contacts'[sv].cost)]_vars

\* with the perimeter cost on and every edge of length 1, a merge has folded two
\* parallel contacts: the survivor has the length of two edges
SurvivorOfTwo ==
    /\ params.perimeter_cost_factor # 0
    /\ \A l \in DOMAIN mesh.elen : mesh.elen[l] = 1
    /\ pc = "while"
    /\ merge_log # <<>>
    /\ \E c \in LiveContacts : sci2segment_contacts[c].length = 2

\* the graph is as the builder returned it
Built == pc \in {"while", "for"} /\ merge_log = <<>>

\* the loops of triangle f whose edge is shared with triangle g
SharedEdges(f, g) ==
    {l \in {3 * f, 3 * f + 1, 3 * f + 2} :
        mesh.radial[l] # l /\ LoopFace(mesh.radial[l]) = g}

\* the live contacts between the segments of the triangles f and g
ContactsBetween(f, g) ==
    {c \in LiveContacts :
        {MemberSet(sci2segment_contacts[c].segment0), MemberSet(sci2segment_contacts[c].segment1)}
            = {{3 * f}, {3 * g}}}

\* C23 -- One contact per shared edge: after the graph build there is exactly one segment
\* per selected triangle, and for every edge shared by two selected triangles exactly one
\* contact linking the segments of those two triangles.
OneContactPerSharedEdge ==
    Built =>
        /\ \A f \in Tris(mesh) :
               Cardinality({s \in DOMAIN segments : MemberSet(s) = {3 * f}})
                   = IF mesh.select[f] THEN 1 ELSE 0
        /\ Cardinality(DOMAIN segments) = Cardinality(SelectedTriangles)
        /\ \A f, g \in Tris(mesh) :
               (f # g /\ mesh.select[f] /\ mesh.select[g])
                   => Cardinality(ContactsBetween(f, g)) = Cardinality(SharedEdges(f, g))

\* C24 -- Non-contact perimeter derivation: after the graph build, the non_contact_perimeter
\* of every segment is its perimeter minus the sum of the lengths of all contacts that
\* touch the segment.
NonContactPerimeterDerived ==
    Built =>
        \A s \in DOMAIN segments :
            segments[s].non_contact_perimeter
                = segments[s].perimeter - SumLength(sci2segment_contacts, ContactsAt(s))

\* cost_normalized as lines 356-358 derive it for the contact c from the state after the step
RederivedAfter(c) ==
    RAdd(RMul(RInt(params.perimeter_cost_factor),
              calc_perimeter_cost(sci2segment_contacts'[c], segments').val),
         LengthNormalized(sci2segment_contacts'[c].cost, sci2segment_contacts'[c].length,
                          params.contact_length_factor))

\* C25 -- Perimeter cost stays current: with perimeter_cost_factor # 0, after every merge
\* step every surviving contact that touches dst (re-pointed from src, or a contact of dst
\* itself), and not only a collapsed survivor, carries the normalized cost derived with the
\* perimeter cost of its current endpoints.
PerimeterCostCurrent ==
    [][(MergeDue /\ pc' # "error" /\ params.perimeter_cost_factor # 0) =>
          \A c \in DOMAIN sci2segment_contacts' :
              (/\ Consumed.segment0 \in {sci2segment_contacts'[c].segment0,
                                         sci2segment_contacts'[c].segment1}
               /\ ~calc_perimeter_cost(sci2segment_contacts'[c], segments').err)
                  => sci2segment_contacts'[c].cost_normalized = RederivedAfter(c)]_vars

\* C26 -- Canonical pair key: with the shift derived from the element count, each of
\* _to_loop_pair_id, _to_vertex_pair_id and _to_segment_pair_id gives two pairs of different
\* ids of the mesh at hand (loops, vertices, segments) the same key if and only if they are
\* the same unordered pair.
PairKeysCanonical ==
    (Running /\ mesh.ntris > 0) =>
        /\ \A a, b, c, d \in Loops(mesh) :
               (a # b /\ c # d) =>
                   ((to_loop_pair_id(a, b, PairShift(3 * mesh.ntris))
                         = to_loop_pair_id(c, d, PairShift(3 * mesh.ntris)))
                        <=> {a, b} = {c, d})
        /\ \A a, b, c, d \in Verts(mesh) :
               (a # b /\ c # d) =>
                   ((to_vertex_pair_id(a, b, PairShift(mesh.nverts))
                         = to_vertex_pair_id(c, d, PairShift(mesh.nverts)))
                        <=> {a, b} = {c, d})
        /\ \A a, b, c, d \in DOMAIN segments :
               (a # b /\ c # d) =>
                   ((to_segment_pair_id(a, b, segment_pair_shift)
                         = to_segment_pair_id(c, d, segment_pair_shift))
                        <=> {a, b} = {c, d})

\* the vertex groups of a list of <<vgi, weight>> items
GroupsOf(items) == {items[i][1] : i \in 1..Len(items)}

\* the sum over the groups gs, each counted once, of the absolute difference of the weights
RECURSIVE WeightDifference(_, _, _)
WeightDifference(items0, items1, gs) ==
    IF gs = {} THEN 0
    ELSE LET g == CHOOSE x \in gs : TRUE
         IN  Abs(DictGet(items0, g) - DictGet(items1, g))
             + WeightDifference(items0, items1, gs \ {g})

\* the non-ignored weights of the mesh at hand
Weights == calc_vi2vgi2weights(mesh, params.ignore_vertex_group_indices)

\* C27 -- Vertex-group weight difference: for every pair of vertices the value of
\* _calc_vertex_group_weight_cost is the sum over the non-ignored vertex groups, each
\* counted once, of the absolute difference of the two weights (a missing weight is 0);
\* it is symmetric, and the memoized value of a pair is the value computed for that pair.
WeightCostIsDifference ==
    (Built /\ pc = "while") =>
        /\ \A v0, v1 \in Verts(mesh) :
               /\ VertexGroupWeightDirect(Weights, v0, v1)
                      = WeightDifference(Weights[v0], Weights[v1],
                                         GroupsOf(Weights[v0]) \cup GroupsOf(Weights[v1]))
               /\ VertexGroupWeightDirect(Weights, v0, v1)
                      = VertexGroupWeightDirect(Weights, v1, v0)
        /\ \A v0, v1 \in Verts(mesh) :
               to_vertex_pair_id(v0, v1, PairShift(mesh.nverts))
                       \in DOMAIN calc_segment_contacts(mesh, params).vpi2weights
                   => calc_segment_contacts(mesh, params).vpi2weights[
                          to_vertex_pair_id(v0, v1, PairShift(mesh.nverts))]
                          = VertexGroupWeightDirect(Weights, v0, v1)

\* auto_segment has returned or raised
Stopped == pc \in {"done", "error"}

LiveSegmentsAfter == (DOMAIN segments') \ {merge_log'[i].src : i \in 1..Len(merge_log')}

\* C28 -- Termination: the merge loop of auto_segment comes to an end; each accepted merge
\* strictly decreases the number of live contacts and the number of live segments, the
\* number of accepted merges is at most the number of selected triangles minus one, and
\* an outer pass that accepted no merge ends the loop.
Terminates ==
    /\ <>Stopped
    /\ [](Len(merge_log) > 0 => Len(merge_log) <= Cardinality(SelectedTriangles) - 1)
    /\ [][/\ Merged =>
                /\ Cardinality(DOMAIN sci2segment_contacts') < Cardinality(LiveContacts)
                /\ Cardinality(LiveSegmentsAfter) < Cardinality(LiveSegments)
          /\ (pc = "while" /\ ~merging) => pc' = "done"]_vars

\* a run that took as many merges as the bound allows, and returned
MergedDownToOne ==
    /\ Done
    /\ Len(merge_log) >= 2
    /\ Len(merge_log) = Cardinality(SelectedTriangles) - 1

\* the sum of the areas the mesh gives the triangles of the tri loop indices ts
RECURSIVE InitialArea(_)
InitialArea(ts) ==
    IF ts = {} THEN 0
    ELSE LET t == CHOOSE x \in ts : TRUE
         IN  mesh.area[t \div 3] + InitialArea(ts \ {t})

RECURSIVE TotalArea(_)
TotalArea(ss) ==
    IF ss = {} THEN 0
    ELSE LET x == CHOOSE y \in ss : TRUE
         IN  segments[x].area + TotalArea(ss \ {x})

\* C29 -- Area conservation: after the graph build and after every merge step, the area of
\* every live segment is the sum of the initial areas of its member triangles, so that the
\* total area over the live segments stays the area of the selected triangles; the area
\* and the member set of a segment never decrease.
AreaConserved ==
    /\ [](Running =>
             /\ \A x \in LiveSegments : segments[x].area = InitialArea(MemberSet(x))
             /\ TotalArea(LiveSegments) = InitialArea(SelectedTriangles))
    /\ [][\A x \in DOMAIN segments :
              /\ x \in DOMAIN segments'
              /\ segments'[x].area >= segments[x].area
              /\ MemberSet(x) \subseteq segments'[x].tri_loop0s]_vars

\* a live segment has taken in triangles of different areas
UnequalAreasMerged ==
    /\ Running
    /\ \E x \in LiveSegments :
          \E t, u \in MemberSet(x) : mesh.area[t \div 3] < mesh.area[u \div 3]

\* the contacts of dst when the collapse step of the merge that is due begins
DstContacts == Repointed.segments[Consumed.segment0].segment_contact_ids

\* the endpoint of c that is not dst, then
OtherEnd(c) == CHOOSE x \in EndpointsIn(Repointed, c) : x # Consumed.segment0

\* c and d are put in the same set of spi2mergable_segment_contacts
Grouped(c, d) ==
    to_segment_pair_id(Repointed.sci2segment_contacts[c].segment0,
                       Repointed.sci2segment_contacts[c].segment1, segment_pair_shift)
        = to_segment_pair_id(Repointed.sci2segment_contacts[d].segment0,
                             Repointed.sci2segment_contacts[d].segment1, segment_pair_shift)

\* C30 -- Parallel grouping is exact: in the collapse step two live contacts of dst fall
\* into the same group of spi2mergable_segment_contacts if and only if their other
\* endpoint is the same segment, with segment_pair_shift as derived from the segment
\* count; contacts to different neighbours are never folded together.
GroupingExact ==
    MergeDue =>
        /\ \A c, d \in DstContacts : Grouped(c, d) <=> OtherEnd(c) = OtherEnd(d)
        /\ \A g \in MergableGroups(Repointed, Consumed.segment0) :
               \A c, d \in g : OtherEnd(c) = OtherEnd(d)
        /\ \A c, d \in DstContacts :
               (c # d /\ OtherEnd(c) = OtherEnd(d))
                   => \E g \in MergableGroups(Repointed, Consumed.segment0) : {c, d} \subseteq g

\* dst has two contacts to one neighbour and a contact to another neighbour
ParallelBesideOther ==
    /\ MergeDue
    /\ \E c, d, e \in DstContacts :
          /\ c # d
          /\ OtherEnd(c) = OtherEnd(d)
          /\ OtherEnd(e) # OtherEnd(c)

====
